---- MODULE Spec2Model ----
(***************************************************************************)
(* Model of the EKS tester's provisioning saga (Tester.Up), its teardown   *)
(* saga (Tester.Down / Tester.down), the stop signal (stopCreationCh,      *)
(* stopCreationChOnce, osSig) and the add-on handles built by              *)
(* createSubTesters, after src/eks/eks.go.                                 *)
(*                                                                         *)
(* Three threads of control are modelled: the caller of Up (which also     *)
(* runs the compensating ts.down() from Up's deferred handler), an         *)
(* operator thread that calls the exported Down(), and the environment,    *)
(* which delivers OS signals and internal stop requests.                   *)
(***************************************************************************)
EXTENDS Integers, Sequences, FiniteSets, TLC

(***************************************************************************)
(* Bounds of the model.                                                    *)
(***************************************************************************)
\* number of step / constructor failures the environment injects in a run
MaxFaults == 2
\* number of Down() calls the operator makes
MaxDowns == 2
\* number of stop-signal firings (OS signals and stop requests) counted
MaxFires == 2

(***************************************************************************)
(* Add-ons: one name per eksconfig AddOn* section.                         *)
(***************************************************************************)
NodeGroupAddOns == <<"NodeGroups", "ManagedNodeGroups">>

\* created before the mid-sweep health check
ClusterAddOns ==
  <<"Conformance", "CSIEBS", "AppMesh", "KubernetesDashboard", "PrometheusGrafana">>

\* created after the mid-sweep health check, in this order
WorkloadAddOns ==
  <<"NLBHelloWorld", "ALB2048", "JobsPi", "JobsEcho", "CronJobs",
    "CSRsLocal", "CSRsRemote", "ConfigMapsLocal", "ConfigMapsRemote",
    "SecretsLocal", "SecretsRemote", "Fargate", "IRSA", "IRSAFargate",
    "Wordpress", "JupyterHub", "Kubeflow", "HollowNodesLocal",
    "HollowNodesRemote", "ClusterLoaderLocal", "ClusterLoaderRemote",
    "StresserLocal", "StresserRemote">>

\* add-ons whose AggregateResults Up calls, in this order
AggregateAddOns ==
  <<"CSRsRemote", "SecretsRemote", "IRSA", "ConfigMapsRemote",
    "ClusterLoaderRemote", "StresserRemote">>

Range(s) == {s[i] : i \in 1..Len(s)}

AddOns == Range(NodeGroupAddOns) \cup Range(ClusterAddOns) \cup Range(WorkloadAddOns)

\* add-ons whose constructor error createSubTesters does not check
UncheckedNew ==
  {"Conformance", "CSIEBS", "AppMesh", "KubernetesDashboard",
   "PrometheusGrafana", "JupyterHub"}

\* cluster_loader_local.New returns no error at all
InfallibleNew == {"ClusterLoaderLocal"}

(***************************************************************************)
(* The steps of Up, in program order.                                      *)
(*   infra  : prerequisite run through catchInterrupt                      *)
(*   sleep  : time.Sleep                                                   *)
(*   health : ts.checkHealth through catchInterrupt                        *)
(*   hook   : operator command, its output written to a file               *)
(*   create : add-on Create through catchInterrupt, nil-checked            *)
(*   gpu    : gpuTester step through catchInterrupt                        *)
(*   fetch  : node-group FetchLogs through catchInterrupt, nil-checked     *)
(*   aggr   : add-on AggregateResults through catchInterrupt               *)
(*   sync   : the final "return ts.cfg.Sync()"                             *)
(***************************************************************************)
UpStep(n, k, a) == [name |-> n, kind |-> k, addon |-> a]

CreateSteps(list) == [i \in 1..Len(list) |-> UpStep("Create", "create", list[i])]

AggregateSteps == [i \in 1..Len(AggregateAddOns) |->
                     UpStep("AggregateResults", "aggr", AggregateAddOns[i])]

UpSteps ==
  << UpStep("createS3", "infra", ""),
     UpStep("createEncryption", "infra", ""),
     UpStep("createKeyPair", "infra", ""),
     UpStep("createClusterRole", "infra", ""),
     UpStep("createVPC", "infra", ""),
     UpStep("createCluster", "infra", ""),
     UpStep("sleep", "sleep", ""),
     UpStep("checkHealth", "health", ""),
     UpStep("CommandAfterCreateCluster", "hook", "") >>
  \o CreateSteps(NodeGroupAddOns)
  \o << UpStep("InstallNvidiaDriver", "gpu", ""),
        UpStep("CreateNvidiaSMI", "gpu", "") >>
  \o CreateSteps(ClusterAddOns)
  \o << UpStep("checkHealth", "health", "") >>
  \o CreateSteps(WorkloadAddOns)
  \o << UpStep("FetchLogs", "fetch", "NodeGroups"),
        UpStep("FetchLogs", "fetch", "ManagedNodeGroups") >>
  \o AggregateSteps
  \o << UpStep("checkHealth", "health", ""),
        UpStep("CommandAfterCreateAddOns", "hook", ""),
        UpStep("Sync", "sync", "") >>

NUp == Len(UpSteps)

\* index of the first step with the given name / add-on
UpIndex(n, a) == CHOOSE i \in 1..NUp :
                    /\ UpSteps[i].name = n /\ UpSteps[i].addon = a
                    /\ \A j \in 1..(i - 1) :
                          ~(UpSteps[j].name = n /\ UpSteps[j].addon = a)

\* kinds of step that Up runs through catchInterrupt
Interruptible == {"infra", "health", "create", "gpu", "fetch", "aggr"}

(***************************************************************************)
(* The steps of down, in program order.                                    *)
(*   infra   : unconditional delete of a prerequisite                      *)
(*   addon   : Delete guarded by IsEnabled && Created; "handle" is the     *)
(*             tester field the call goes to, "secs" the sleep that        *)
(*             follows a successful Delete                                 *)
(*   lbwait  : the two-minute wait after load-balancer add-ons             *)
(*   ng      : node-group Delete guarded by IsEnabled && handle != nil,    *)
(*             always followed by a ten-second sleep                       *)
(*   vpcwait : the thirty-second sleep if the VPC was created              *)
(*   end     : the final return                                            *)
(***************************************************************************)
DownStep(n, k, a, h, s) == [name |-> n, kind |-> k, addon |-> a, handle |-> h, secs |-> s]

Del(a, h, s) == DownStep("Delete", "addon", a, h, s)

DownSteps ==
  << DownStep("deleteKeyPair", "infra", "", "", 0),
     Del("StresserRemote", "StresserRemote", 20),
     Del("StresserLocal", "StresserLocal", 20),
     Del("ClusterLoaderRemote", "ClusterLoaderRemote", 20),
     Del("ClusterLoaderLocal", "ClusterLoaderRemote", 20),
     Del("HollowNodesRemote", "HollowNodesRemote", 0),
     Del("HollowNodesLocal", "HollowNodesLocal", 0),
     Del("Kubeflow", "Kubeflow", 0),
     Del("JupyterHub", "JupyterHub", 20),
     Del("Wordpress", "Wordpress", 20),
     Del("IRSAFargate", "IRSAFargate", 0),
     Del("IRSA", "IRSA", 0),
     Del("Fargate", "Fargate", 0),
     Del("SecretsLocal", "SecretsLocal", 0),
     Del("SecretsRemote", "SecretsRemote", 0),
     Del("ConfigMapsLocal", "ConfigMapsLocal", 0),
     Del("CSRsRemote", "CSRsRemote", 0),
     Del("CronJobs", "CronJobs", 0),
     Del("JobsEcho", "JobsEcho", 0),
     Del("JobsPi", "JobsPi", 0),
     Del("ALB2048", "ALB2048", 60),
     Del("NLBHelloWorld", "NLBHelloWorld", 60),
     Del("PrometheusGrafana", "PrometheusGrafana", 20),
     Del("KubernetesDashboard", "KubernetesDashboard", 0),
     Del("AppMesh", "AppMesh", 0),
     Del("CSIEBS", "CSIEBS", 20),
     Del("Conformance", "Conformance", 20),
     DownStep("sleep", "lbwait", "", "", 120),
     DownStep("Delete", "ng", "ManagedNodeGroups", "ManagedNodeGroups", 10),
     DownStep("Delete", "ng", "NodeGroups", "NodeGroups", 10),
     DownStep("deleteCluster", "infra", "", "", 0),
     DownStep("deleteEncryption", "infra", "", "", 0),
     DownStep("deleteClusterRole", "infra", "", "", 0),
     DownStep("sleep", "vpcwait", "", "", 30),
     DownStep("deleteVPC", "infra", "", "", 0),
     DownStep("deleteS3", "infra", "", "", 0),
     DownStep("return", "end", "", "", 0) >>

NDown == Len(DownSteps)


(***************************************************************************)
(* Configurations the model starts from.                                   *)
(***************************************************************************)
EnabledSets ==
  { {},
    {"NodeGroups"},
    {"NodeGroups", "ManagedNodeGroups", "JobsEcho"},
    {"NodeGroups", "Conformance", "CSRsLocal"},
    {"NodeGroups", "ClusterLoaderLocal"},
    {"ManagedNodeGroups", "ALB2048", "ClusterLoaderLocal", "ClusterLoaderRemote"} }

\* the waits of OnFailureDeleteWaitSeconds that are tried: none and some
WaitSeconds == {0, 120}

Configs ==
  { [ enabled |-> e,
      OnFailureDelete |-> d,
      OnFailureDeleteWaitSeconds |-> w,
      VPCCreate |-> x,
      ngGPU |-> x,
      mngGPU |-> ~x,
      ngFetchLogs |-> x,
      mngFetchLogs |-> x,
      CommandAfterCreateCluster |-> x,
      CommandAfterCreateAddOns |-> x ] :
    e \in EnabledSets, d \in BOOLEAN, w \in WaitSeconds, x \in BOOLEAN }

VARIABLES
  cfg,          \* the configuration fields that Up and Down only read
  created,      \* add-ons whose Created flag is true
  up,           \* cfg.Status.Up
  handles,      \* tester fields of ts that are not nil
  stopClosed,   \* stopCreationCh is closed
  onceDone,     \* stopCreationChOnce has run
  upPc,         \* where the caller of Up is
  upIdx,        \* the step of Up that is next, or running
  ex,           \* catchInterrupt: "idle", "running" or "finished"
  intr,         \* the case catchInterrupt's select took: "none", "stopc", "signal"
  workRes,      \* the last work that returned to catchInterrupt, and its result
  inflight,     \* steps of Up whose work was started and has not returned
  upErr,        \* the named result err of Up
  upRet,        \* what Up returned to its caller
  upLog,        \* steps of Up that were started, in order
  dn,           \* the two runs of down: "comp" from Up's defer, "op" from Down()
  opPc,         \* where the caller of Down() is
  opRuns,       \* Down() calls that have returned
  downMu,       \* holder of ts.downMu
  panicked,     \* a nil tester was dereferenced: the process is gone
  faults,       \* failures injected so far
  fires,        \* stop-signal firings so far
  interrupts,   \* "interrupted" results catchInterrupt has returned
  compDowns,    \* times Up's deferred handler called ts.down()
  quietDown,    \* the first Down() call began after Up had returned
  synced,       \* what the configuration file holds: the last ts.cfg.Sync()
  downCalledAt, \* where the caller of Up was when Down() was last called
  hookFile,     \* what each hook of Up wrote to its output file
  coolDown,     \* the wait before clean up: how it stands or ended
  logRet,       \* what the last DumpClusterLogs or DownloadClusterLogs did
  cfgPtr,       \* ts.cfg: "nil", "nostatus" (cfg.Status is nil) or "set"
  isUpRet,      \* what the last call of IsUp returned
  dep,          \* the two eksctl deployers, each with its UpOptions
  env           \* what the host of the eksctl deployers answers

isUpVars == << cfgPtr, isUpRet >>
deployerVars == << dep, env >>

vars == << cfg, created, up, handles, stopClosed, onceDone, upPc, upIdx, ex,
           intr, workRes, inflight, upErr, upRet, upLog, dn, opPc, opRuns,
           downMu, panicked, faults, fires, interrupts, compDowns, quietDown,
           synced, downCalledAt, hookFile, coolDown, isUpVars, logRet,
           deployerVars >>

NoErr == [step |-> 0, cause |-> "none"]
Err(i, c) == [step |-> i, cause |-> c]

IdleRun == [active |-> FALSE, pc |-> 1, errs |-> << >>, log |-> << >>,
            atStart |-> {}, ret |-> "none", msgs |-> << >>]

\* ts.cfg.Sync(): the configuration file holds the Created flags and Status.Up
Sync(cr, u) == [created |-> cr, up |-> u]

\* the output files of the two hooks of Up, none written
Hooks == {"CommandAfterCreateCluster", "CommandAfterCreateAddOns"}
NoHookFiles == [h \in Hooks |-> "none"]

\* neither DumpClusterLogs nor DownloadClusterLogs has been called
NoLogs == [fn |-> "none", used |-> << >>, ret |-> "none"]

\* IsUp has not been called
NoIsUp == [called |-> FALSE, up |-> FALSE, err |-> "nil", health |-> "skipped",
           statusUp |-> FALSE]

\* the Tester as New leaves it
InitTester ==
  /\ created = {}
  /\ up = FALSE
  /\ handles = {}
  /\ stopClosed = FALSE
  /\ onceDone = FALSE
  /\ upPc = "idle"
  /\ upIdx = 1
  /\ ex = "idle"
  /\ intr = "none"
  /\ workRes = [step |-> 0, res |-> "ok"]
  /\ inflight = {}
  /\ upErr = NoErr
  /\ upRet = NoErr
  /\ upLog = << >>
  /\ dn = [t \in {"comp", "op"} |-> IdleRun]
  /\ opPc = "idle"
  /\ opRuns = 0
  /\ downMu = "free"
  /\ panicked = FALSE
  /\ faults = 0
  /\ fires = 0
  /\ interrupts = 0
  /\ compDowns = 0
  /\ quietDown = FALSE
  /\ synced = Sync({}, FALSE)
  /\ downCalledAt = "none"
  /\ hookFile = NoHookFiles
  /\ coolDown = "none"
  /\ logRet = NoLogs
  /\ isUpRet = NoIsUp

(***************************************************************************)
(* createSubTesters: the constructors run in this order, each only if its  *)
(* add-on is enabled ("GPU" stands for gpuTester, built when either node   *)
(* group add-on is enabled).  bad is the set of constructors that fail.    *)
(***************************************************************************)
SubTesterOrder ==
  <<"NodeGroups", "ManagedNodeGroups", "GPU">> \o ClusterAddOns \o
  <<"NLBHelloWorld", "ALB2048", "JobsPi", "JobsEcho", "CronJobs",
    "CSRsLocal", "CSRsRemote", "ConfigMapsLocal", "ConfigMapsRemote",
    "SecretsLocal", "SecretsRemote", "Fargate", "IRSA", "IRSAFargate",
    "Wordpress", "JupyterHub", "Kubeflow", "ClusterLoaderLocal",
    "ClusterLoaderRemote", "HollowNodesLocal", "HollowNodesRemote",
    "StresserLocal", "StresserRemote">>

IsEnabled(c, a) ==
  IF a = "GPU"
    THEN "NodeGroups" \in c.enabled \/ "ManagedNodeGroups" \in c.enabled
    ELSE a \in c.enabled

RECURSIVE SubTestersFrom(_, _, _, _)
SubTestersFrom(i, c, bad, hs) ==
  IF i > Len(SubTesterOrder)
    THEN [handles |-> hs, failed |-> FALSE]
    ELSE LET a == SubTesterOrder[i] IN
         IF ~IsEnabled(c, a)
           THEN SubTestersFrom(i + 1, c, bad, hs)
           ELSE IF a \in bad
                  THEN IF a \in UncheckedNew
                         THEN SubTestersFrom(i + 1, c, bad, hs)
                         ELSE [handles |-> hs, failed |-> TRUE]
                  ELSE SubTestersFrom(i + 1, c, bad, hs \cup {a})

createSubTesters(c, bad) == SubTestersFrom(1, c, bad, {})

\* constructors that can fail under configuration c
Fallible(c) == {a \in Range(SubTesterOrder) : IsEnabled(c, a)} \ InfallibleNew

\* Each step persists the configuration before it returns (the steps'
\* bodies are outside this file).
SyncAfterStepSkipped(old, cr, u) == old
SyncAfterStep(old, cr, u) == Sync(cr, u)

\* What the collaborators outside this file do to the configuration:
\* createCluster sets Status.Up when the cluster is up, deleteCluster
\* clears it; a tester's Create sets its add-on's Created flag when it
\* succeeds, its Delete clears the flag when it succeeds.
UpAfterCreateCluster(u, res) == IF res = "ok" THEN TRUE ELSE u
UpAfterDeleteCluster(u, ok) == IF ok THEN FALSE ELSE u
CreatedAfterCreate(cr, a, res) == IF res = "ok" THEN cr \cup {a} ELSE cr
CreatedAfterDelete(cr, h, ok) == IF ok THEN cr \ {h} ELSE cr

(***************************************************************************)
(* Which step of Up comes next: the guards of Up's if-statements.          *)
(***************************************************************************)
FetchCond(a) ==
  /\ a \in cfg.enabled
  /\ a \in created
  /\ IF a = "NodeGroups" THEN cfg.ngFetchLogs ELSE cfg.mngFetchLogs

needGPUAnyNodeGroup ==
  "NodeGroups" \in cfg.enabled \/ "ManagedNodeGroups" \in cfg.enabled
needGPU ==
  \/ "NodeGroups" \in cfg.enabled /\ cfg.ngGPU
  \/ "ManagedNodeGroups" \in cfg.enabled /\ cfg.mngGPU

UpApplies(i) ==
  LET s == UpSteps[i] IN
  CASE s.kind = "create" -> s.addon \in cfg.enabled
    [] s.kind = "gpu"    -> needGPU
    [] s.kind = "fetch"  -> FetchCond(s.addon)
    [] s.kind = "aggr"   -> /\ FetchCond("NodeGroups") \/ FetchCond("ManagedNodeGroups")
                            /\ s.addon \in cfg.enabled
    [] s.kind = "hook"   -> IF s.name = "CommandAfterCreateCluster"
                              THEN cfg.CommandAfterCreateCluster
                              ELSE cfg.CommandAfterCreateAddOns
    [] OTHER             -> TRUE

RECURSIVE NextUpStep(_)
NextUpStep(i) == IF i >= NUp \/ UpApplies(i) THEN i ELSE NextUpStep(i + 1)

\* Up dereferences the tester of these kinds only after a nil check
NilChecked == {"create", "fetch"}

\* kinds of step that down runs through catchInterrupt: none, down calls
\* every step directly
DownInterruptible == {}

(***************************************************************************)
(* catchInterrupt (eks package, outside this file): runs the work in a     *)
(* goroutine and selects on stopCreationCh, osSig and the work's result.   *)
(* When a stop is selected it still waits for the work to return before    *)
(* it reports the interruption.                                            *)
(***************************************************************************)
\* the executor is blocked in its select
Selecting == ex = "running" /\ intr = "none"

\* catchInterrupt returns only when the work has returned
CanReturnNoWait(e, n) == e = "finished" \/ (e = "running" /\ n # "none")
CanReturn(e, n) == e = "finished"

\* the error catchInterrupt returns for step i
ExecutorResultSignalLost(i, n, r) ==
  IF n = "stopc" THEN Err(i, "interrupted")
  ELSE IF r = "fail" THEN Err(i, "run")
  ELSE NoErr
ExecutorResult(i, n, r) ==
  IF n # "none" THEN Err(i, "interrupted")
  ELSE IF r = "fail" THEN Err(i, "run")
  ELSE NoErr

\* stopCreationChOnce.Do(func() { close(stopCreationCh) })
CloseOnceResend(closed, once) == [closed |-> ~closed, once |-> TRUE]
CloseOnce(closed, once) ==
  IF once THEN [closed |-> closed, once |-> once]
          ELSE [closed |-> TRUE, once |-> TRUE]

(***************************************************************************)
(* Up                                                                      *)
(***************************************************************************)

\* One hook of Up: EvaluateCommandRefs, runCommand, ioutil.WriteFile.  A
\* failed EvaluateCommandRefs is returned; the error of runCommand goes
\* into the output file after the command's output; a failed WriteFile is
\* returned as "failed to write file".
HookResultCommandFatal(i, refsOk, cmdOk, writeOk) ==
  IF ~refsOk THEN [err |-> Err(i, "refs"), file |-> "none"]
  ELSE IF ~writeOk THEN [err |-> Err(i, "write"), file |-> "none"]
  ELSE IF ~cmdOk THEN [err |-> Err(i, "command"), file |-> "output+error"]
  ELSE [err |-> NoErr, file |-> "output"]
HookResult(i, refsOk, cmdOk, writeOk) ==
  IF ~refsOk THEN [err |-> Err(i, "refs"), file |-> "none"]
  ELSE IF ~writeOk THEN [err |-> Err(i, "write"), file |-> "none"]
  ELSE [err |-> NoErr, file |-> IF cmdOk THEN "output" ELSE "output+error"]

\* Up is called
UpCall ==
  /\ ~panicked
  /\ upPc = "idle"
  /\ upPc' = "run"
  /\ UNCHANGED << cfg, created, up, handles, stopClosed, onceDone, upIdx, ex,
                  intr, workRes, inflight, upErr, upRet, upLog, dn, opPc,
                  opRuns, downMu, panicked, faults, fires, interrupts,
                  compDowns, quietDown >>
  /\ UNCHANGED << synced, downCalledAt, hookFile, coolDown, isUpVars, logRet,
                  deployerVars >>

\* Up reaches its next step and starts it
UpLaunch ==
  /\ ~panicked
  /\ upPc = "run"
  /\ ex = "idle"
  /\ LET i == NextUpStep(upIdx)
         s == UpSteps[i]
     IN
     \/ \* "ts.xTester == nil when AddOnX.Enable == true"
        /\ s.kind \in NilChecked
        /\ s.addon \notin handles
        /\ upErr' = Err(i, "nilhandle")
        /\ upPc' = "defer"
        /\ upIdx' = i
        /\ UNCHANGED << ex, intr, inflight, upLog, panicked, faults, hookFile >>
     \/ \* AggregateResults and the GPU steps are called without a nil check
        /\ s.kind \in {"aggr", "gpu"}
        /\ (IF s.kind = "gpu" THEN "GPU" ELSE s.addon) \notin handles
        /\ panicked' = TRUE
        /\ upIdx' = i
        /\ UNCHANGED << upErr, upPc, ex, intr, inflight, upLog, faults, hookFile >>
     \/ \* the step goes through catchInterrupt
        /\ s.kind \in Interruptible
        /\ (IF s.kind = "gpu" THEN "GPU" ELSE s.addon) \in handles \cup {""}
        /\ ex' = "running"
        /\ intr' = IF stopClosed THEN "stopc" ELSE "none"
        /\ inflight' = inflight \cup {i}
        /\ upLog' = Append(upLog, i)
        /\ upIdx' = i
        /\ UNCHANGED << upErr, upPc, panicked, faults, hookFile >>
     \/ \* time.Sleep(30 * time.Second)
        /\ s.kind = "sleep"
        /\ upLog' = Append(upLog, i)
        /\ upIdx' = i + 1
        /\ UNCHANGED << upErr, upPc, ex, intr, inflight, panicked, faults, hookFile >>
     \/ \* EvaluateCommandRefs, runCommand, ioutil.WriteFile
        /\ s.kind = "hook"
        /\ upLog' = Append(upLog, i)
        /\ \E refsOk \in BOOLEAN, cmdOk \in BOOLEAN, writeOk \in BOOLEAN :
             LET r == HookResult(i, refsOk, cmdOk, writeOk)
                 cost == IF refsOk /\ cmdOk /\ writeOk THEN 0 ELSE 1
             IN
             \* the command runs only if its references were evaluated, and
             \* at most one of the three fails
             /\ ~refsOk => cmdOk /\ writeOk
             /\ ~cmdOk => writeOk
             /\ faults + cost <= MaxFaults
             /\ faults' = faults + cost
             /\ hookFile' = [hookFile EXCEPT ![s.name] = r.file]
             /\ IF r.err = NoErr
                  THEN upIdx' = i + 1 /\ UNCHANGED << upErr, upPc >>
                  ELSE /\ upIdx' = i
                       /\ upErr' = r.err
                       /\ upPc' = "defer"
        /\ UNCHANGED << ex, intr, inflight, panicked >>
     \/ \* return ts.cfg.Sync()
        /\ s.kind = "sync"
        /\ upLog' = Append(upLog, i)
        /\ upIdx' = i
        /\ upPc' = "defer"
        /\ \E ok \in BOOLEAN :
             /\ ~ok => faults < MaxFaults
             /\ faults' = IF ok THEN faults ELSE faults + 1
             /\ upErr' = IF ok THEN NoErr ELSE Err(i, "run")
        /\ UNCHANGED << ex, intr, inflight, panicked, hookFile >>
  /\ UNCHANGED << cfg, created, up, handles, stopClosed, onceDone, workRes,
                  upRet, dn, opPc, opRuns, downMu, fires, interrupts,
                  compDowns, quietDown >>
  /\ UNCHANGED << synced, downCalledAt, coolDown, isUpVars, logRet,
                  deployerVars >>


\* the work of step w returns; r is its result, bad the constructors that
\* fail inside createCluster's call of createSubTesters
WorkDone ==
  /\ ~panicked
  /\ \E w \in inflight, r \in {"ok", "fail"}, bad \in SUBSET Fallible(cfg) :
       LET s == UpSteps[w]
           isCluster == s.name = "createCluster"
           sub == createSubTesters(cfg, bad)
           res == IF isCluster /\ r = "ok" /\ sub.failed THEN "fail" ELSE r
           cost == (IF r = "fail" THEN 1 ELSE 0) + Cardinality(bad)
       IN
       /\ bad # {} => isCluster /\ r = "ok"
       /\ Cardinality(bad) <= 1
       /\ faults + cost <= MaxFaults
       /\ faults' = faults + cost
       /\ inflight' = inflight \ {w}
       /\ handles' = IF isCluster /\ r = "ok" THEN sub.handles ELSE handles
       /\ up' = IF isCluster THEN UpAfterCreateCluster(up, res) ELSE up
       /\ created' = IF s.kind = "create"
                       THEN CreatedAfterCreate(created, s.addon, res) ELSE created
       /\ IF ex = "running" /\ upIdx = w
            THEN ex' = "finished" /\ workRes' = [step |-> w, res |-> res]
            ELSE UNCHANGED << ex, workRes >>
  /\ UNCHANGED << cfg, stopClosed, onceDone, upPc, upIdx, intr, upErr, upRet,
                  upLog, dn, opPc, opRuns, downMu, panicked, fires,
                  interrupts, compDowns, quietDown >>
  /\ synced' = SyncAfterStep(synced, created', up')
  /\ UNCHANGED << downCalledAt, hookFile, coolDown, isUpVars, logRet,
                  deployerVars >>

\* what Up does with the result of a step: "if err != nil { return err }"
OnStepResultIgnored(err) == "next"
OnStepResult(err) == IF err = NoErr THEN "next" ELSE "return"

\* catchInterrupt returns to Up
UpReturn ==
  /\ ~panicked
  /\ upPc = "run"
  /\ ex # "idle"
  /\ CanReturn(ex, intr)
  /\ LET err == ExecutorResult(upIdx, intr, workRes.res) IN
     /\ interrupts' = IF err.cause = "interrupted" THEN interrupts + 1 ELSE interrupts
     /\ IF OnStepResult(err) = "next"
          THEN /\ upIdx' = upIdx + 1
               /\ UNCHANGED << upErr, upPc >>
          ELSE /\ upErr' = err
               /\ upPc' = "defer"
               /\ UNCHANGED upIdx
  /\ ex' = "idle"
  /\ intr' = "none"
  /\ UNCHANGED << cfg, created, up, handles, stopClosed, onceDone, workRes,
                  inflight, upRet, upLog, dn, opPc, opRuns, downMu, panicked,
                  faults, fires, compDowns, quietDown >>
  /\ UNCHANGED << synced, downCalledAt, hookFile, coolDown, isUpVars, logRet,
                  deployerVars >>

(***************************************************************************)
(* The stop signal.                                                        *)
(***************************************************************************)
\* The stop signal is looked at only by catchInterrupt and by the select
\* before clean up, both inside Up: firings are modelled while Up runs (a
\* firing before Up is called acts as one right after the call, one after
\* Up has left the select before clean up is seen by nobody).
Listening == upPc \in {"run", "cooldown"}

\* an internal stop request closes stopCreationCh through the Once; a
\* catchInterrupt blocked in its select wakes on the closed channel
StopRequest ==
  /\ ~panicked
  /\ Listening
  /\ fires < MaxFires
  /\ fires' = fires + 1
  /\ LET c == CloseOnce(stopClosed, onceDone) IN
     /\ stopClosed' = c.closed
     /\ onceDone' = c.once
     /\ intr' = IF Selecting /\ c.closed /\ ~stopClosed THEN "stopc" ELSE intr
  /\ UNCHANGED << cfg, created, up, handles, upPc, upIdx, ex, workRes,
                  inflight, upErr, upRet, upLog, dn, opPc, opRuns, downMu,
                  panicked, faults, interrupts, compDowns, quietDown >>
  /\ UNCHANGED << synced, downCalledAt, hookFile, coolDown, isUpVars, logRet,
                  deployerVars >>


(***************************************************************************)
(* down: the guards of its if-statements, evaluated when reached.          *)
(***************************************************************************)
LBCond ==
  /\ "NodeGroups" \in cfg.enabled \/ "ManagedNodeGroups" \in cfg.enabled
  /\ \/ "ALB2048" \in cfg.enabled /\ "ALB2048" \in created
     \/ "NLBHelloWorld" \in cfg.enabled /\ "NLBHelloWorld" \in created

\* the guard of an add-on's Delete block
DeleteGuardCreatedOnly(a) == a \in created
DeleteGuard(a) == a \in cfg.enabled /\ a \in created

\* the guard of a node group's Delete block
NodeGroupGuard(a, h) == a \in cfg.enabled /\ h \in handles

\* the guard of the sleep before VPC deletion: "VPC was created"
VPCWaitGuardAlways(c) == TRUE
VPCWaitGuard(c) == c.VPCCreate

\* ts.deleteVPC (outside this file) deletes the network only if this
\* Tester created it
deleteVPCDeletes(c) == c.VPCCreate

DownApplies(i) ==
  LET s == DownSteps[i] IN
  CASE s.kind = "addon"   -> DeleteGuard(s.addon)
    [] s.kind = "ng"      -> NodeGroupGuard(s.addon, s.handle)
    [] s.kind = "lbwait"  -> LBCond
    [] s.kind = "vpcwait" -> VPCWaitGuard(cfg)
    [] OTHER              -> TRUE

RECURSIVE NextDownStep(_)
NextDownStep(i) == IF i >= NDown \/ DownApplies(i) THEN i ELSE NextDownStep(i + 1)

Call(i, ok) == [ev |-> "call", step |-> i, secs |-> 0, ok |-> ok]
Sleep(i, d) == [ev |-> "sleep", step |-> i, secs |-> d, ok |-> TRUE]
Panic(i) == [ev |-> "panic", step |-> i, secs |-> 0, ok |-> FALSE]

\* what down does with a failed step: "errs = append(errs, err.Error())"
OnStepErrorAbort(r, i) == [r EXCEPT !.errs = Append(@, i), !.pc = NDown]
OnStepError(r, i) == [r EXCEPT !.errs = Append(@, i), !.pc = i + 1]

\* the sleep "before cluster deletion" that follows a node group's Delete,
\* outside the "if err != nil" of the Delete
NodeGroupSettleOnSuccessOnly(r, i, d, ok) ==
  IF ok THEN [r EXCEPT !.log = Append(@, Sleep(i, d))] ELSE r
NodeGroupSettle(r, i, d, ok) == [r EXCEPT !.log = Append(@, Sleep(i, d))]

\* down starts: DOWN START
StartRun == [IdleRun EXCEPT !.active = TRUE, !.atStart = created]

\* one step of the run t of down
DownStepOf(t) ==
  /\ ~panicked
  /\ dn[t].active
  /\ LET r == dn[t]
         i == NextDownStep(r.pc)
         s == DownSteps[i]
         called(ok) == [r EXCEPT !.log = Append(@, Call(i, ok))]
     IN
     \/ \* deleteKeyPair, deleteCluster, deleteEncryption, deleteClusterRole,
        \* deleteVPC, deleteS3
        /\ s.kind = "infra"
        /\ \E ok \in BOOLEAN :
             /\ ~ok => faults < MaxFaults
             /\ faults' = IF ok THEN faults ELSE faults + 1
             /\ dn' = [dn EXCEPT ![t] = IF ok THEN [called(ok) EXCEPT !.pc = i + 1]
                                             ELSE OnStepError(called(ok), i)]
             /\ up' = IF s.name = "deleteCluster" THEN UpAfterDeleteCluster(up, ok) ELSE up
        /\ UNCHANGED << created, panicked >>
     \/ \* xTester.Delete() of an add-on, then its sleep if it succeeded
        /\ s.kind = "addon"
        /\ s.handle \in handles
        /\ \E ok \in BOOLEAN :
             /\ ~ok => faults < MaxFaults
             /\ faults' = IF ok THEN faults ELSE faults + 1
             /\ created' = CreatedAfterDelete(created, s.handle, ok)
             /\ dn' = [dn EXCEPT ![t] =
                         IF ~ok THEN OnStepError(called(ok), i)
                         ELSE IF s.secs > 0
                           THEN [called(ok) EXCEPT !.log = Append(@, Sleep(i, s.secs)),
                                                   !.pc = i + 1]
                           ELSE [called(ok) EXCEPT !.pc = i + 1]]
        /\ UNCHANGED << up, panicked >>
     \/ \* Delete called on a nil tester
        /\ s.kind = "addon"
        /\ s.handle \notin handles
        /\ panicked' = TRUE
        /\ dn' = [dn EXCEPT ![t] = [r EXCEPT !.log = Append(@, Panic(i)), !.pc = i]]
        /\ UNCHANGED << created, up, faults >>
     \/ \* mngTester.Delete(), ngTester.Delete(), each followed by its sleep
        /\ s.kind = "ng"
        /\ \E ok \in BOOLEAN :
             /\ ~ok => faults < MaxFaults
             /\ faults' = IF ok THEN faults ELSE faults + 1
             /\ created' = CreatedAfterDelete(created, s.handle, ok)
             /\ LET slept == NodeGroupSettle(called(ok), i, s.secs, ok) IN
                dn' = [dn EXCEPT ![t] = IF ok THEN [slept EXCEPT !.pc = i + 1]
                                             ELSE OnStepError(slept, i)]
        /\ UNCHANGED << up, panicked >>
     \/ \* the waits before the node groups and before the VPC are deleted
        /\ s.kind \in {"lbwait", "vpcwait"}
        /\ dn' = [dn EXCEPT ![t] = [r EXCEPT !.log = Append(@, Sleep(i, s.secs)),
                                            !.pc = i + 1]]
        /\ UNCHANGED << created, up, panicked, faults >>
     \/ \* the final return, then the deferred ts.cfg.Sync()
        /\ s.kind = "end"
        /\ \E ok \in BOOLEAN :
             /\ ~ok => (faults < MaxFaults /\ r.errs = << >>)
             /\ faults' = IF ok THEN faults ELSE faults + 1
             /\ dn' = [dn EXCEPT ![t] =
                         [r EXCEPT !.active = FALSE,
                                   !.pc = NDown,
                                   !.ret = IF r.errs # << >> \/ ~ok THEN "error" ELSE "nil",
                                   !.msgs = IF r.errs # << >> THEN r.errs
                                            ELSE IF ok THEN << >> ELSE << NDown >>]]
        /\ UNCHANGED << created, up, panicked >>
  /\ synced' = SyncAfterStep(synced, created', up')


(***************************************************************************)
(* Up's deferred failure handler.                                          *)
(***************************************************************************)
\* what the handler does once it has looked at err and OnFailureDelete
AfterUpAlwaysRevert(e, c) ==
  IF e = NoErr THEN "return"
  ELSE IF c.OnFailureDeleteWaitSeconds > 0 THEN "cooldown" ELSE "down"
AfterUp(e, c) ==
  IF e = NoErr THEN "return"
  ELSE IF ~c.OnFailureDelete THEN "return"
  ELSE IF c.OnFailureDeleteWaitSeconds > 0 THEN "cooldown"
  ELSE "down"

\* the value Up hands to its caller after the handler called ts.down()
ReturnedDownError(e, r) == IF r.ret = "error" THEN Err(NUp + 1, "down") ELSE e
Returned(e, r) == e

UpDefer ==
  /\ ~panicked
  /\ upPc = "defer"
  /\ LET a == AfterUp(upErr, cfg) IN
     /\ upPc' = IF a = "return" THEN "done" ELSE a
     /\ upRet' = IF a = "return" THEN upErr ELSE upRet
     /\ IF a = "down"
          THEN dn' = [dn EXCEPT !["comp"] = StartRun] /\ compDowns' = compDowns + 1
          ELSE UNCHANGED << dn, compDowns >>
     /\ coolDown' = CASE a = "down" -> "skipped"
                      [] a = "cooldown" -> "waiting"
                      [] OTHER -> coolDown
  /\ UNCHANGED << cfg, created, up, handles, stopClosed, onceDone, upIdx, ex,
                  intr, workRes, inflight, upErr, upLog, opPc, opRuns, downMu,
                  panicked, faults, fires, interrupts, quietDown >>
  /\ synced' = Sync(created, up)
  /\ UNCHANGED << downCalledAt, hookFile, isUpVars, logRet, deployerVars >>

\* the select before clean up ends on time.After or on the closed stopCreationCh
CoolDownEnd ==
  /\ ~panicked
  /\ upPc = "cooldown"
  /\ upPc' = "down"
  \* the closed channel is ready as soon as it is closed, the timer only
  \* after the whole wait
  /\ coolDown' = IF stopClosed THEN "stopc" ELSE "timer"
  /\ dn' = [dn EXCEPT !["comp"] = StartRun]
  /\ compDowns' = compDowns + 1
  /\ UNCHANGED << cfg, created, up, handles, stopClosed, onceDone, upIdx, ex,
                  intr, workRes, inflight, upErr, upRet, upLog, opPc, opRuns,
                  downMu, panicked, faults, fires, interrupts, quietDown >>
  /\ UNCHANGED << synced, downCalledAt, hookFile, isUpVars, logRet,
                  deployerVars >>

\* derr := ts.down(), one step of it; Up returns err when down has returned
CompDownStep ==
  /\ upPc = "down"
  /\ DownStepOf("comp")
  /\ IF ~panicked' /\ ~dn'["comp"].active
       THEN upPc' = "done" /\ upRet' = Returned(upErr, dn'["comp"])
       ELSE UNCHANGED << upPc, upRet >>
  /\ UNCHANGED << cfg, handles, stopClosed, onceDone, upIdx, ex, intr,
                  workRes, inflight, upErr, upLog, opPc, opRuns, downMu,
                  fires, interrupts, compDowns, quietDown >>
  /\ UNCHANGED << downCalledAt, hookFile, coolDown, isUpVars, logRet,
                  deployerVars >>

\* SIGTERM or SIGINT: signal.Notify sends without blocking on the unbuffered
\* osSig, so the signal reaches a goroutine only if one is receiving
OSSignal ==
  /\ ~panicked
  /\ Listening
  /\ fires < MaxFires
  /\ fires' = fires + 1
  /\ IF Selecting
       THEN \* catchInterrupt: close stopCreationCh once, report the signal
            LET c == CloseOnce(stopClosed, onceDone) IN
            /\ intr' = "signal"
            /\ stopClosed' = c.closed
            /\ onceDone' = c.once
            /\ UNCHANGED << upPc, dn, compDowns, coolDown >>
       ELSE IF upPc = "cooldown"
         THEN \* the select before clean up
              /\ upPc' = "down"
              /\ dn' = [dn EXCEPT !["comp"] = StartRun]
              /\ compDowns' = compDowns + 1
              /\ coolDown' = "signal"
              /\ UNCHANGED << intr, stopClosed, onceDone >>
         ELSE \* nobody receives: the signal is dropped
              UNCHANGED << intr, stopClosed, onceDone, upPc, dn, compDowns,
                           coolDown >>
  /\ UNCHANGED << cfg, created, up, handles, upIdx, ex, workRes, inflight,
                  upErr, upRet, upLog, opPc, opRuns, downMu, panicked, faults,
                  interrupts, quietDown >>
  /\ UNCHANGED << synced, downCalledAt, hookFile, isUpVars, logRet,
                  deployerVars >>

(***************************************************************************)
(* Down(), called by the operator.                                         *)
(***************************************************************************)
\* ts.downMu.Lock(), then ts.down() starts
OpDownCall ==
  /\ ~panicked
  /\ opPc = "idle"
  /\ opRuns < MaxDowns
  /\ downMu = "free"
  /\ downMu' = "op"
  /\ opPc' = "down"
  /\ dn' = [dn EXCEPT !["op"] = StartRun]
  /\ quietDown' = IF opRuns = 0 THEN upPc = "done" ELSE quietDown
  /\ UNCHANGED << cfg, created, up, handles, stopClosed, onceDone, upPc,
                  upIdx, ex, intr, workRes, inflight, upErr, upRet, upLog,
                  opRuns, panicked, faults, fires, interrupts, compDowns >>
  /\ downCalledAt' = upPc
  /\ UNCHANGED << synced, hookFile, coolDown, isUpVars, logRet,
                  deployerVars >>

\* one step of ts.down(); when it returns, the deferred ts.downMu.Unlock()
OpDownStep ==
  /\ opPc = "down"
  /\ DownStepOf("op")
  /\ IF ~panicked' /\ ~dn'["op"].active
       THEN opPc' = "idle" /\ opRuns' = opRuns + 1 /\ downMu' = "free"
       ELSE UNCHANGED << opPc, opRuns, downMu >>
  /\ UNCHANGED << cfg, handles, stopClosed, onceDone, upPc, upIdx, ex, intr,
                  workRes, inflight, upErr, upRet, upLog, fires, interrupts,
                  compDowns, quietDown >>
  /\ UNCHANGED << downCalledAt, hookFile, coolDown, isUpVars, logRet,
                  deployerVars >>

\* the callers take turns: Down() is not called while Up runs, nor Up
\* while Down() runs
UpCallSeq == opPc = "idle" /\ UpCall
OpDownCallSeq == upPc \in {"idle", "done"} /\ OpDownCall

(***************************************************************************)
(* IsUp.                                                                   *)
(***************************************************************************)
\* the values of ts.cfg that IsUp tells apart; New leaves it "set", a
\* Tester that New did not build may have the others
CfgPtrs == {"nil", "nostatus", "set"}

\* IsUp with ts.cfg = p, Status.Up = u, and a health check that would
\* answer healthy
IsUpResult(p, u, healthy) ==
  IF p = "nil"
    THEN [called |-> TRUE, up |-> FALSE, err |-> "nil", health |-> "skipped",
          statusUp |-> FALSE]
  ELSE IF p = "nostatus"
    THEN [called |-> TRUE, up |-> FALSE, err |-> "nil", health |-> "skipped",
          statusUp |-> FALSE]
  ELSE IF ~u
    THEN [called |-> TRUE, up |-> FALSE, err |-> "nil", health |-> "skipped",
          statusUp |-> FALSE]
  ELSE [called |-> TRUE, up |-> TRUE,
        err |-> IF healthy THEN "nil" ELSE "error",
        health |-> IF healthy THEN "passed" ELSE "failed",
        statusUp |-> TRUE]

IsUp ==
  /\ ~panicked
  /\ \E healthy \in BOOLEAN : isUpRet' = IsUpResult(cfgPtr, up, healthy)
  /\ UNCHANGED << cfg, created, up, handles, stopClosed, onceDone, upPc,
                  upIdx, ex, intr, workRes, inflight, upErr, upRet, upLog,
                  dn, opPc, opRuns, downMu, panicked, faults, fires,
                  interrupts, compDowns, quietDown, synced, downCalledAt,
                  hookFile, coolDown,
                  cfgPtr, logRet, deployerVars >>

\* DumpClusterLogs and DownloadClusterLogs have the same shape: under
\* IsEnabledAddOnNodeGroups a call on the tester "first", whose error is
\* returned, then under IsEnabledAddOnManagedNodeGroups the result of a call
\* on the tester "second".  A call on a nil tester panics.  hs are the
\* testers that are not nil, ok1 and ok2 whether the calls succeed.
LogsDispatch(c, hs, first, second, ok1, ok2) ==
  LET tail(used) ==
        IF "ManagedNodeGroups" \in c.enabled
          THEN [used |-> Append(used, second),
                ret |-> IF second \notin hs THEN "panic"
                        ELSE IF ok2 THEN "nil" ELSE "error"]
          ELSE [used |-> used, ret |-> "nil"]
  IN
  IF "NodeGroups" \in c.enabled
    THEN IF first \notin hs THEN [used |-> << first >>, ret |-> "panic"]
         ELSE IF ~ok1 THEN [used |-> << first >>, ret |-> "error"]
         ELSE tail(<< first >>)
    ELSE tail(<< >>)

DumpClusterLogsOf(c, hs, ok1, ok2) ==
  LogsDispatch(c, hs, "NodeGroups", "ManagedNodeGroups", ok1, ok2)
DownloadClusterLogsOf(c, hs, ok1, ok2) ==
  LogsDispatch(c, hs, "ManagedNodeGroups", "NodeGroups", ok1, ok2)

\* fn is called and returns r
LogsCall(fn, r) ==
  /\ ~panicked
  /\ logRet' = [fn |-> fn, used |-> r.used, ret |-> r.ret]
  /\ panicked' = (r.ret = "panic")
  /\ UNCHANGED << cfg, created, up, handles, stopClosed, onceDone, upPc,
                  upIdx, ex, intr, workRes, inflight, upErr, upRet, upLog,
                  dn, opPc, opRuns, downMu, faults, fires, interrupts,
                  compDowns, quietDown, synced, downCalledAt, hookFile,
                  coolDown, isUpVars, deployerVars >>

DumpClusterLogs ==
  \E ok1 \in BOOLEAN, ok2 \in BOOLEAN :
    LogsCall("DumpClusterLogs", DumpClusterLogsOf(cfg, handles, ok1, ok2))

DownloadClusterLogs ==
  \E ok1 \in BOOLEAN, ok2 \in BOOLEAN :
    LogsCall("DownloadClusterLogs", DownloadClusterLogsOf(cfg, handles, ok1, ok2))

\* Up is called on a Tester that New built
UpCallSet == cfgPtr = "set" /\ UpCall

(***************************************************************************)
(* The eksctl deployer: UpOptions, verifyUpFlags, Up.                      *)
(***************************************************************************)
\* the flag settings that are tried
FlagSets ==
  [ KubernetesVersion : {"", "1.30"},
    Nodes : {0, 2},
    AMI : {"", "ami-1"},
    InstanceTypes : {<< >>, <<"m5.large">>, <<"m5.large", "c5.large">>},
    ConfigFile : {"", "cluster.yaml"},
    AMIFamily : {"AmazonLinux2", "Bottlerocket"},
    SkipClusterCreation : BOOLEAN,
    ClusterName : {"", "c1"},
    UseUnmanagedNodegroup : BOOLEAN ]

\* commonOptions.RunID(), the version util.DetectKubernetesVersion finds,
\* the name os.CreateTemp gives the rendered configuration
RunID == "run-1"
DetectedVersion == "1.29"
TempFile == "kubetest2-eksctl-cluster-config"

\* what the host answers: version detection, "eksctl create", "eksctl
\* utils write-kubeconfig"
Envs ==
  { [detectOk |-> TRUE, execOk |-> TRUE, kubeOk |-> TRUE],
    [detectOk |-> FALSE, execOk |-> TRUE, kubeOk |-> TRUE],
    [detectOk |-> TRUE, execOk |-> FALSE, kubeOk |-> TRUE],
    [detectOk |-> TRUE, execOk |-> TRUE, kubeOk |-> FALSE] }

\* NewDeployer and the flag parsing: flags keeps the command line as given
NewDeployer(f) ==
  [flags |-> f, UpOptions |-> f, clusterName |-> "", pc |-> "start",
   args |-> << >>, config |-> "none", kubeArgs |-> << >>, ret |-> "none"]

initClusterName(o) == IF o.ClusterName # "" THEN o.ClusterName ELSE RunID

\* verifyUpFlags: the options it leaves and the error it returns
verifyUpFlags(o, e) ==
  IF o.KubernetesVersion = "" /\ ~e.detectOk
    THEN [UpOptions |-> o, err |-> "unable to detect --kubernetes-version"]
  ELSE
    LET o1 == IF o.KubernetesVersion = ""
                THEN [o EXCEPT !.KubernetesVersion = DetectedVersion] ELSE o
    IN
    IF o1.Nodes <= 0
      THEN [UpOptions |-> o1, err |-> "number of nodes must be greater than zero"]
    ELSE
      LET o2 == IF /\ o1.AMIFamily = "Bottlerocket"
                   /\ o1.AMI # ""
                   /\ ~o1.UseUnmanagedNodegroup
                  THEN [o1 EXCEPT !.UseUnmanagedNodegroup = TRUE] ELSE o1
      IN
      IF o2.UseUnmanagedNodegroup /\ Len(o2.InstanceTypes) > 1
        THEN [UpOptions |-> o2,
              err |-> "Unmanaged nodegroups only support a single instance type"]
      ELSE IF o2.UseUnmanagedNodegroup /\ Len(o2.InstanceTypes) = 0
        THEN [UpOptions |-> [o2 EXCEPT !.InstanceTypes = <<"m5.xlarge">>],
              err |-> "No instance type specified for unmanaged nodegroup"]
      ELSE [UpOptions |-> o2, err |-> "nil"]

\* RenderClusterConfig: what the template writes, from the options it reads
RenderClusterConfig(o, name) ==
  [ name |-> name,
    version |-> o.KubernetesVersion,
    kind |-> IF o.UseUnmanagedNodegroup THEN "nodeGroups" ELSE "managedNodeGroups",
    ami |-> o.AMI,
    amiFamily |-> o.AMIFamily,
    instanceTypes |-> IF o.UseUnmanagedNodegroup /\ Len(o.InstanceTypes) > 0
                        THEN << o.InstanceTypes[1] >> ELSE o.InstanceTypes,
    nodes |-> IF o.Nodes > 0 THEN o.Nodes ELSE 0,
    overrideBootstrapCommand |-> o.AMI # "" /\ o.AMIFamily = "AmazonLinux2" ]

\* the arguments of "eksctl create"
CreateArgs(o, file) ==
  << "create", IF o.SkipClusterCreation THEN "nodegroup" ELSE "cluster",
     "--config-file", file >>

\* the deployers run one after the other, as two runs of the command
MayAct(k) == k = 1 \/ dep[1].pc = "done"

\* deployer.Up: initClusterName, verifyUpFlags
DeployerUpVerify ==
  /\ \E k \in {1, 2} :
       /\ MayAct(k)
       /\ dep[k].pc = "start"
       /\ LET v == verifyUpFlags(dep[k].UpOptions, env) IN
          dep' = [dep EXCEPT ![k] =
                    [@ EXCEPT !.clusterName = initClusterName(dep[k].UpOptions),
                              !.UpOptions = v.UpOptions,
                              !.pc = IF v.err = "nil" THEN "verified" ELSE "done",
                              !.ret = IF v.err = "nil" THEN "none"
                                      ELSE "up flags are invalid"]]
  /\ UNCHANGED << cfg, created, up, handles, stopClosed, onceDone, upPc,
                  upIdx, ex, intr, workRes, inflight, upErr, upRet, upLog,
                  dn, opPc, opRuns, downMu, panicked, faults, fires,
                  interrupts, compDowns, quietDown, synced, downCalledAt,
                  hookFile, coolDown,
                  isUpVars, logRet, env >>

\* deployer.Up: the arguments, "eksctl create", the kubeconfig
DeployerUpExecute ==
  /\ \E k \in {1, 2} :
       /\ MayAct(k)
       /\ dep[k].pc = "verified"
       /\ LET o == dep[k].UpOptions
              given == o.ConfigFile # ""
          IN
          dep' = [dep EXCEPT ![k] =
                    [@ EXCEPT !.pc = "done",
                              !.config = IF given THEN "none"
                                         ELSE RenderClusterConfig(o, dep[k].clusterName),
                              !.args = CreateArgs(o, IF given THEN o.ConfigFile ELSE TempFile),
                              !.kubeArgs = IF env.execOk
                                             THEN << "utils", "write-kubeconfig",
                                                     "--cluster", dep[k].clusterName >>
                                             ELSE << >>,
                              !.ret = IF ~env.execOk THEN "failed to create cluster"
                                      ELSE IF ~env.kubeOk THEN "failed to write kubeconfig"
                                      ELSE "nil"]]
  /\ UNCHANGED << cfg, created, up, handles, stopClosed, onceDone, upPc,
                  upIdx, ex, intr, workRes, inflight, upErr, upRet, upLog,
                  dn, opPc, opRuns, downMu, panicked, faults, fires,
                  interrupts, compDowns, quietDown, synced, downCalledAt,
                  hookFile, coolDown,
                  isUpVars, logRet, env >>

\* two command lines that differ at most in nodes, instance types, AMI, AMI
\* family and unmanaged-nodegroup
DeployerPairs ==
  { [k \in {1, 2} |-> NewDeployer(IF k = 1 THEN f ELSE
                        [f EXCEPT !.Nodes = g.Nodes,
                                  !.InstanceTypes = g.InstanceTypes,
                                  !.AMI = g.AMI,
                                  !.AMIFamily = g.AMIFamily,
                                  !.UseUnmanagedNodegroup = g.UseUnmanagedNodegroup])] :
      f \in FlagSets,
      g \in {h \in FlagSets : /\ h.KubernetesVersion = ""
                              /\ h.ConfigFile = ""
                              /\ ~h.SkipClusterCreation
                              /\ h.ClusterName = ""} }

\* no deployer is run
NoDeployers ==
  [k \in {1, 2} |-> NewDeployer(CHOOSE f \in FlagSets :
                                  /\ f.KubernetesVersion = "1.30" /\ f.Nodes = 2
                                  /\ f.ConfigFile = "" /\ f.ClusterName = "c1"
                                  /\ f.AMI = "" /\ f.InstanceTypes = <<"m5.large">>
                                  /\ f.AMIFamily = "AmazonLinux2"
                                  /\ ~f.SkipClusterCreation /\ ~f.UseUnmanagedNodegroup)]

QuietEnv == [detectOk |-> TRUE, execOk |-> TRUE, kubeOk |-> TRUE]

(***************************************************************************)
(* Specifications.                                                         *)
(*   Spec     : Up, its compensating down, and the stop signal             *)
(*   SpecDown : Up and Down() called in turn, no stop signal               *)
(*   SpecConc : Up and Down() called concurrently, no stop signal          *)
(*   SpecIsUp : Up, its compensating down, and IsUp called at any time     *)
(*   SpecEksctl : two runs of the eksctl deployer's Up                     *)
(*   SpecLB   : as SpecDown, with load-balancer add-ons enabled            *)
(*   SpecLogs : Up, DumpClusterLogs and DownloadClusterLogs                *)
(***************************************************************************)
Init ==
  /\ cfg \in Configs
  /\ InitTester
  /\ cfgPtr = "set"
  /\ dep = NoDeployers
  /\ env = QuietEnv

Next ==
  \/ UpCall
  \/ UpLaunch
  \/ WorkDone
  \/ UpReturn
  \/ UpDefer
  \/ CoolDownEnd
  \/ CompDownStep
  \/ StopRequest
  \/ OSSignal

Spec == Init /\ [][Next]_vars

NextDown ==
  \/ UpCallSeq
  \/ UpLaunch
  \/ WorkDone
  \/ UpReturn
  \/ UpDefer
  \/ CoolDownEnd
  \/ CompDownStep
  \/ OpDownCallSeq
  \/ OpDownStep

SpecDown == Init /\ [][NextDown]_vars

ConcConfigs == {c \in Configs : /\ c.enabled = {"NodeGroups"}
                                /\ c.OnFailureDelete
                                /\ ~c.VPCCreate}

InitConc == Init /\ cfg \in ConcConfigs

NextConc ==
  \/ UpCall
  \/ UpLaunch
  \/ WorkDone
  \/ UpReturn
  \/ UpDefer
  \/ CoolDownEnd
  \/ CompDownStep
  \/ OpDownCall
  \/ OpDownStep

SpecConc == InitConc /\ [][NextConc]_vars

InitIsUp ==
  /\ cfg \in ConcConfigs
  /\ InitTester
  /\ cfgPtr \in CfgPtrs
  /\ dep = NoDeployers
  /\ env = QuietEnv

NextIsUp ==
  \/ UpCallSet
  \/ UpLaunch
  \/ WorkDone
  \/ UpReturn
  \/ UpDefer
  \/ CoolDownEnd
  \/ CompDownStep
  \/ IsUp

SpecIsUp == InitIsUp /\ [][NextIsUp]_vars

InitEksctl ==
  /\ cfg \in {c \in ConcConfigs : c.OnFailureDeleteWaitSeconds = 0}
  /\ InitTester
  /\ cfgPtr = "set"
  /\ dep \in DeployerPairs
  /\ env \in Envs

NextEksctl ==
  \/ DeployerUpVerify
  \/ DeployerUpExecute

SpecEksctl == InitEksctl /\ [][NextEksctl]_vars

\* SpecLogs: Up, and DumpClusterLogs and DownloadClusterLogs called at any
\* time, for every combination of the two node-group add-ons
LogsConfigs ==
  { [c EXCEPT !.enabled = e] :
      c \in {d \in Configs : ~d.OnFailureDelete /\ d.OnFailureDeleteWaitSeconds = 0},
      e \in SUBSET Range(NodeGroupAddOns) }

InitLogs ==
  /\ cfg \in LogsConfigs
  /\ InitTester
  /\ cfgPtr = "set"
  /\ dep = NoDeployers
  /\ env = QuietEnv

NextLogs ==
  \/ UpCall
  \/ UpLaunch
  \/ WorkDone
  \/ UpReturn
  \/ UpDefer
  \/ DumpClusterLogs
  \/ DownloadClusterLogs

SpecLogs == InitLogs /\ [][NextLogs]_vars

\* SpecLB: Up and Down() called in turn, as in SpecDown, on configurations
\* with load-balancer add-ons, with and without node groups and cluster
\* add-ons, and with clean up after a failed Up
LBEnabledSets ==
  { {"ALB2048"},
    {"NodeGroups", "JobsPi", "ALB2048"},
    {"NodeGroups", "NLBHelloWorld", "PrometheusGrafana"} }

LBConfigs ==
  { [c EXCEPT !.enabled = e] :
      c \in {d \in Configs : d.OnFailureDelete /\ d.OnFailureDeleteWaitSeconds > 0},
      e \in LBEnabledSets }

InitLB ==
  /\ cfg \in LBConfigs
  /\ InitTester
  /\ cfgPtr = "set"
  /\ dep = NoDeployers
  /\ env = QuietEnv

SpecLB == InitLB /\ [][NextDown]_vars


(***************************************************************************)
(* Properties.                                                             *)
(***************************************************************************)
Runs == {"comp", "op"}

IsCall(e) == e.ev = "call"
IsFailedCall(e) == e.ev = "call" /\ ~e.ok

\* the steps a run of down called, and those of them that failed, in order
CalledSteps(log) == LET c == SelectSeq(log, IsCall) IN [k \in 1..Len(c) |-> c[k].step]
FailedSteps(log) == LET c == SelectSeq(log, IsFailedCall) IN [k \in 1..Len(c) |-> c[k].step]

InfraDeletes == {i \in 1..NDown : DownSteps[i].kind = "infra"}

CreateClusterIdx == UpIndex("createCluster", "")

\* C1: Up aborts at the first fatal step.  Once the work of a step has
\* failed, or Up has an error (a failed or interrupted step, a nil tester,
\* a failed hook or Sync), no step scheduled after that step is ever
\* started, nothing of Up is still running, and a step refused for its nil
\* tester is not started either.
UpAbortsAtFirstFatalStep ==
  /\ workRes.res = "fail" => \A k \in 1..Len(upLog) : upLog[k] <= workRes.step
  /\ upErr # NoErr =>
       /\ \A k \in 1..Len(upLog) : upLog[k] <= upErr.step
       /\ upPc # "run"
       /\ ex = "idle"
  /\ upErr.cause = "nilhandle" => \A k \in 1..Len(upLog) : upLog[k] < upErr.step

\* C1 witness: a node-group or add-on Create failed and Up has returned
UpAbortedAtCreate ==
  /\ upPc = "done"
  /\ upErr.cause = "run"
  /\ upErr.step \in 1..NUp
  /\ UpSteps[upErr.step].kind = "create"
  /\ workRes = [step |-> upErr.step, res |-> "fail"]

\* C2: with OnFailureDelete, a failed Up calls the teardown exactly once
\* (never without a failure, never twice), and when Up returns it returns
\* its own error, whatever the teardown returned.
CompensationOnceOriginalError ==
  /\ compDowns <= 1
  /\ compDowns = 1 => cfg.OnFailureDelete /\ upErr # NoErr
  /\ (cfg.OnFailureDelete /\ upErr # NoErr /\ upPc \in {"down", "done"}) => compDowns = 1
  /\ (cfg.OnFailureDelete /\ upErr # NoErr /\ upPc = "done") =>
       /\ dn["comp"].ret # "none"
       /\ upRet = upErr

\* C2 witness: Up failed, the compensating teardown failed too, Up returned
FailedUpFailedRevert ==
  /\ upPc = "done"
  /\ cfg.OnFailureDelete
  /\ upErr # NoErr
  /\ dn["comp"].ret = "error"

\* C3: without OnFailureDelete, when createCluster fails Up returns the
\* error of that step, Status.Up is false, no Create was started and the
\* teardown was not called.
ClusterFailureNoRevert ==
  (/\ upPc = "done"
   /\ ~cfg.OnFailureDelete
   /\ workRes = [step |-> CreateClusterIdx, res |-> "fail"])
  => /\ upRet # NoErr
     /\ upRet.step = CreateClusterIdx
     /\ ~up
     /\ \A k \in 1..Len(upLog) : UpSteps[upLog[k]].kind # "create"
     /\ compDowns = 0
     /\ dn["comp"] = IdleRun

\* C3 witness: createCluster failed with a node group enabled, Up returned
ClusterFailedUpReturned ==
  /\ upPc = "done"
  /\ ~cfg.OnFailureDelete
  /\ "NodeGroups" \in cfg.enabled
  /\ workRes = [step |-> CreateClusterIdx, res |-> "fail"]

\* C4: down never returns early on a failed step.  While it runs, its error
\* list holds exactly the steps that failed so far; when it returns, every
\* prerequisite delete has been called, a run with failures returns an
\* error made of all of them in order, and a nil return means none failed.
DownAggregatesAllFailures ==
  \A t \in Runs :
    LET r == dn[t]
        failed == FailedSteps(r.log)
        called == CalledSteps(r.log)
    IN
    /\ r.active => r.errs = failed
    /\ r.ret # "none" =>
         /\ \A i \in InfraDeletes : \E k \in 1..Len(called) : called[k] = i
         /\ failed # << >> => r.ret = "error" /\ r.msgs = failed
         /\ r.ret = "nil" => failed = << >>

\* C4 witness: a run of down returned an error made of two failures, the
\* first of them not the last step
DownReturnedTwoFailures ==
  \E t \in Runs :
    /\ dn[t].ret = "error"
    /\ Len(dn[t].msgs) = 2
    /\ dn[t].msgs[1] < dn[t].msgs[2]


\* the tester whose Delete a call of down went to
DeletedHandles(log) ==
  {DownSteps[log[k].step].handle :
     k \in {j \in 1..Len(log) : /\ log[j].ev = "call"
                                /\ DownSteps[log[j].step].kind \in {"addon", "ng"}}}

\* C5: in a run of down that has returned, the Delete of an add-on (node
\* groups included) was called if and only if the add-on's Created flag was
\* true when the run began.
DeleteIffCreatedAtStart ==
  \A t \in Runs :
    dn[t].ret # "none" =>
      \A a \in AddOns : (a \in DeletedHandles(dn[t].log)) <=> (a \in dn[t].atStart)

\* C6: a Down() that follows a Down() begun after Up returned calls nothing
\* destructive: no add-on Delete, no node-group Delete, no prerequisite
\* delete.
SecondDownCallsNothing ==
  (quietDown /\ ((opRuns >= 1 /\ opPc = "down") \/ opRuns >= 2))
  => CalledSteps(dn["op"].log) = << >>

\* C7: the teardown run by Down() and the one run by Up's deferred handler
\* never run at the same time.
OneTeardownAtATime == ~(dn["comp"].active /\ dn["op"].active)

\* C8: no two operations of the saga run at the same time.  At most one
\* work of Up is in flight, and only while Up is inside catchInterrupt for
\* that very step: when Up moves on, returns or runs its compensating
\* teardown, nothing it started is still running.
OneOperationAtATime ==
  /\ Cardinality(inflight) <= 1
  /\ inflight # {} => (upPc = "run" /\ ex = "running" /\ inflight = {upIdx})
  /\ dn["comp"].active => inflight = {}

\* C8 witness: a step was interrupted and the compensating teardown is at work
InterruptedThenReverting ==
  /\ upErr.cause = "interrupted"
  /\ dn["comp"].active
  /\ dn["comp"].log # << >>

allButFires ==
  << cfg, created, up, handles, stopClosed, onceDone, upPc, upIdx, ex, intr,
     workRes, inflight, upErr, upRet, upLog, dn, opPc, opRuns, downMu,
     panicked, faults, interrupts, compDowns, quietDown, synced,
     downCalledAt, hookFile, coolDown, isUpVars, logRet, deployerVars >>

\* C10: firing the stop signal twice acts as firing it once.  A step that
\* runs while the signal is closed has an interruption pending; when
\* catchInterrupt returns with an interruption pending, the work of the
\* step has returned and Up gets the interrupted result of that step; at
\* most one interrupted result is ever surfaced; and a firing that comes
\* after the signal has closed changes nothing (but for ending the wait
\* before clean up, which the closed signal ends anyway).
DoubleFireSingleInterrupt ==
  [][ /\ interrupts' <= 1
      /\ (ex' = "running" /\ stopClosed') => intr' # "none"
      /\ (intr # "none" /\ ex' = "idle") =>
           /\ upErr' = Err(upIdx, "interrupted")
           /\ interrupts' = 1
           /\ inflight' = {}
           /\ workRes'.step = upIdx
      /\ (fires' # fires /\ stopClosed /\ upPc # "cooldown") => UNCHANGED allButFires
    ]_vars

\* C10 witness: two firings, Up has returned, one interrupted result
FiredTwiceInterruptedOnce ==
  /\ fires = 2
  /\ interrupts = 1
  /\ upPc = "done"
  /\ upRet.cause = "interrupted"


\* C11: when catchInterrupt returns to Up, the work of its step has
\* returned.  If no stop was selected, Up gets the work's own result: it
\* goes on after a nil, it has the work's error after a failure.  If a stop
\* was selected first, Up gets the interrupted error of that step, and what
\* the work did stays done: the Created flag set by a Create that succeeded,
\* Status.Up set by a createCluster that succeeded.
ExecutorReturnsWorkOrInterrupted ==
  [][ (ex # "idle" /\ ex' = "idle") =>
        LET i == upIdx
            s == UpSteps[upIdx]
        IN
        /\ workRes.step = i
        /\ inflight' = {}
        /\ intr = "none" =>
             /\ workRes.res = "ok" => (upErr' = NoErr /\ upPc' = "run" /\ upIdx' = i + 1)
             /\ workRes.res = "fail" => upErr' = Err(i, "run")
        /\ intr # "none" =>
             /\ upErr' = Err(i, "interrupted")
             /\ (workRes.res = "ok" /\ s.kind = "create") => s.addon \in created'
             /\ (workRes.res = "ok" /\ i = CreateClusterIdx) => up'
    ]_vars

\* C11 witness: a Create was interrupted by the one firing of the stop
\* signal, its work succeeded all the same and its Created flag is set
InterruptedCreateKept ==
  /\ upPc = "defer"
  /\ upErr.cause = "interrupted"
  /\ UpSteps[upErr.step].kind = "create"
  /\ workRes = [step |-> upErr.step, res |-> "ok"]
  /\ UpSteps[upErr.step].addon \in created
  /\ fires = 1


\* C12: every step that Up starts and every step that down calls is run
\* through catchInterrupt.
AllStepsThroughExecutor ==
  /\ \A k \in 1..Len(upLog) : UpSteps[upLog[k]].kind \in Interruptible
  /\ \A t \in Runs : \A k \in 1..Len(dn[t].log) :
       dn[t].log[k].ev = "call" => DownSteps[dn[t].log[k].step].kind \in DownInterruptible

IsInfraStep(i) == UpSteps[i].kind = "infra"
IsCreateStep(i) == UpSteps[i].kind = "create"
IsGPUStep(i) == UpSteps[i].kind = "gpu"

\* C13: with only the unmanaged node group enabled, no GPU image, no
\* failure and no interruption, a returned Up has started the six
\* prerequisites in order (createCluster the last of them), then the
\* node-group Create and no other Create, no GPU step; it returned nil,
\* Status.Up is true and only the node group is Created.
NodeGroupOnlyUp ==
  (/\ upPc = "done"
   /\ cfg.enabled = {"NodeGroups"}
   /\ ~cfg.ngGPU
   /\ faults = 0
   /\ interrupts = 0)
  => /\ upRet = NoErr
     /\ up
     /\ created = {"NodeGroups"}
     /\ \A k \in 1..(Len(upLog) - 1) : upLog[k] < upLog[k + 1]
     /\ SelectSeq(upLog, IsInfraStep) = [j \in 1..CreateClusterIdx |-> j]
     /\ SelectSeq(upLog, IsCreateStep) = << UpIndex("Create", "NodeGroups") >>
     /\ SelectSeq(upLog, IsGPUStep) = << >>

\* C13 witness: such an Up has returned nil
NodeGroupOnlyUpReturned ==
  /\ upPc = "done"
  /\ cfg.enabled = {"NodeGroups"}
  /\ ~cfg.ngGPU
  /\ faults = 0
  /\ interrupts = 0
  /\ upRet = NoErr
  /\ Len(upLog) > CreateClusterIdx

JobsEchoIdx == CHOOSE i \in 1..NDown : DownSteps[i].addon = "JobsEcho"
DeleteClusterIdx == CHOOSE i \in 1..NDown : DownSteps[i].name = "deleteCluster"

\* C14: in a run of down that began with echo-jobs enabled and Created and
\* has returned, jobsEchoTester.Delete was called exactly once, before
\* deleteCluster, and when it succeeded a sleep follows it at once.
JobsEchoDeleteThenDelay ==
  \A t \in Runs :
    (/\ dn[t].ret # "none"
     /\ "JobsEcho" \in cfg.enabled
     /\ "JobsEcho" \in dn[t].atStart)
    => LET log == dn[t].log
           calls == {k \in 1..Len(log) : log[k].ev = "call" /\ log[k].step = JobsEchoIdx}
       IN
       /\ Cardinality(calls) = 1
       /\ \A k \in calls :
            /\ \E c \in (k + 1)..Len(log) :
                 log[c].ev = "call" /\ log[c].step = DeleteClusterIdx
            /\ log[k].ok =>
                 /\ k < Len(log)
                 /\ log[k + 1].ev = "sleep"
                 /\ log[k + 1].step = JobsEchoIdx
                 /\ log[k + 1].secs > 0

\* C16: once the stop signal is closed no wait runs its time: Up does not
\* sleep after createCluster, and the teardown run by Up's handler sleeps
\* after no Delete and before no delete.
WaitsEndOnStop ==
  [][ stopClosed =>
        /\ Len(upLog') > Len(upLog) => UpSteps[upLog'[Len(upLog')]].kind # "sleep"
        /\ \A k \in (Len(dn["comp"].log) + 1)..Len(dn'["comp"].log) :
             dn'["comp"].log[k].ev # "sleep"
    ]_vars

\* C20: Up starts its steps one at a time in program order, none twice.
\* The first steps started are createS3, createEncryption, createKeyPair,
\* createClusterRole, createVPC, createCluster, in this order, and each of
\* them but the first is started only when the one before it has just
\* returned nil to Up.
PrerequisiteOrder ==
  [][ upLog' # upLog =>
        LET n == Len(upLog')
            i == upLog'[Len(upLog')]
            names == << "createS3", "createEncryption", "createKeyPair",
                        "createClusterRole", "createVPC", "createCluster" >>
        IN
        /\ upLog' = Append(upLog, i)
        /\ \A k \in 1..Len(upLog) : upLog[k] < i
        /\ \A j \in 1..(IF n < Len(names) THEN n ELSE Len(names)) :
             UpSteps[upLog'[j]].name = names[j]
        /\ (n <= Len(names) /\ n > 1) =>
             /\ workRes = [step |-> upLog[n - 1], res |-> "ok"]
             /\ upErr = NoErr
             /\ ex = "idle"
             /\ inflight = {}
    ]_vars

\* C20 witness: all six prerequisites were started and createCluster failed
PrerequisitesStartedClusterFailed ==
  /\ Len(upLog) = CreateClusterIdx
  /\ upErr = Err(CreateClusterIdx, "run")


DownCancelsUp == [][downCalledAt = "run" => upLog' = upLog]_vars

\* C18: IsUp returns true exactly when Status.Up is set and the health
\* check passes; with a nil cfg, a nil Status or Status.Up false it returns
\* (false, nil) and does not run the health check.
IsUpIffProvisioned ==
  isUpRet.called =>
    /\ isUpRet.up <=> (cfgPtr = "set" /\ isUpRet.statusUp /\ isUpRet.health = "passed")
    /\ (cfgPtr # "set" \/ ~isUpRet.statusUp) =>
         (~isUpRet.up /\ isUpRet.err = "nil" /\ isUpRet.health = "skipped")

\* the two command lines agree on config-file, skip-cluster-creation and
\* cluster-name
SameButNodeFlags(f, g) ==
  /\ f.ConfigFile = g.ConfigFile
  /\ f.SkipClusterCreation = g.SkipClusterCreation
  /\ f.ClusterName = g.ClusterName
  /\ f.KubernetesVersion = g.KubernetesVersion

\* C19: when two runs of the deployer's Up were given the same config file,
\* not empty, and agree on skip-cluster-creation and cluster-name, they
\* hand eksctl the same arguments and return the same result.
ConfigFileIgnoresOtherFlags ==
  (/\ dep[1].pc = "done"
   /\ dep[2].pc = "done"
   /\ dep[1].flags.ConfigFile # ""
   /\ SameButNodeFlags(dep[1].flags, dep[2].flags))
  => /\ dep[1].args = dep[2].args
     /\ dep[1].ret = dep[2].ret

HookIdx(h) == UpIndex(h, "")

\* what holds of the two hooks of Up when "causes" are the errors a hook
\* returns: Up stops at a hook only with one of them and with no file
\* written; in every other case the file holds the command's outcome and Up
\* goes on with the step that follows the hook
HookOutcome(causes) ==
  \A h \in Hooks :
    LET i == HookIdx(h)
        ran == \E k \in 1..Len(upLog) : upLog[k] = i
    IN
    /\ upErr.step = i => upErr.cause \in causes /\ hookFile[h] = "none"
    /\ hookFile[h] # "none" => ran /\ upErr.step # i
    /\ ran /\ upErr.step # i =>
         /\ hookFile[h] \in {"output", "output+error"}
         /\ upPc = "run" => upIdx > i
         /\ \A k \in 1..(Len(upLog) - 1) :
              upLog[k] = i => upLog[k + 1] = NextUpStep(i + 1)

\* C21 (as stated): a hook's command that fails does not stop Up: its output
\* and error are written to the hook's file and Up goes on with the next
\* step; Up stops at a hook only when writing the file failed.
HookAbortsOnlyOnWriteFailure == HookOutcome({"write"})

\* C21 (amended): a hook's command that fails does not stop Up: its output
\* and error are written to the hook's file and Up goes on with the next
\* step; Up stops at a hook only when evaluating the command's references
\* failed or writing the file failed.
HookAbortsOnlyOnRefsOrWriteFailure == HookOutcome({"refs", "write"})

\* the command after createCluster failed, its error is in the file, and Up
\* went on to create the node group
HookCommandFailedUpWentOn ==
  /\ hookFile["CommandAfterCreateCluster"] = "output+error"
  /\ "NodeGroups" \in created

NGIdx == UpIndex("Create", "NodeGroups")
MNGIdx == UpIndex("Create", "ManagedNodeGroups")
\* the checkHealth that follows createCluster and its sleep
PostCreateHealthIdx == UpIndex("checkHealth", "")

\* the step Up starts in this transition, 0 if it starts none
Started == IF Len(upLog') > Len(upLog) THEN upLog'[Len(upLog')] ELSE 0

\* C22: ngTester.Create is started only if the node-group add-on is enabled
\* and right after the checkHealth that follows createCluster returned nil;
\* mngTester.Create is started only if the managed node-group add-on is
\* enabled, and right after ngTester.Create returned nil when both are
\* enabled (right after that checkHealth returned nil otherwise).
NodeGroupBeforeManaged ==
  [][ LET healthy == [step |-> PostCreateHealthIdx, res |-> "ok"] IN
      /\ Started = NGIdx =>
           /\ "NodeGroups" \in cfg.enabled
           /\ workRes = healthy
           /\ upErr = NoErr
      /\ Started = MNGIdx =>
           /\ "ManagedNodeGroups" \in cfg.enabled
           /\ upErr = NoErr
           /\ \A k \in 1..Len(upLog) : upLog[k] # MNGIdx
           /\ IF "NodeGroups" \in cfg.enabled
                THEN /\ workRes = [step |-> NGIdx, res |-> "ok"]
                     /\ \E k \in 1..Len(upLog) : upLog[k] = NGIdx
                     /\ \E k \in 1..Len(upLog) : upLog[k] = PostCreateHealthIdx
                ELSE workRes = healthy
    ]_vars

\* both node-group add-ons are enabled and mngTester.Create, started after
\* ngTester.Create, has returned nil
BothNodeGroupsCreated ==
  /\ {"NodeGroups", "ManagedNodeGroups"} \subseteq cfg.enabled
  /\ \E j, k \in 1..Len(upLog) : j < k /\ upLog[j] = NGIdx /\ upLog[k] = MNGIdx
  /\ workRes = [step |-> MNGIdx, res |-> "ok"]

\* C23: an enabled add-on whose tester is nil makes the run fail: no method
\* is called on the nil tester (nothing panics), and a run of down that
\* returned while an enabled add-on had no tester returned an error; so did
\* an Up that went past createCluster.
MissingHandleIsFatal ==
  LET missing == \E a \in cfg.enabled : a \notin handles IN
  /\ ~panicked
  /\ \A t \in Runs : dn[t].ret # "none" /\ missing => dn[t].ret = "error"
  /\ upPc = "done" /\ missing /\ workRes.step >= CreateClusterIdx => upRet # NoErr

\* the Creates of the add-on sweep, in the order of Up's blocks
SweepOrder == ClusterAddOns \o WorkloadAddOns
Pos(list, a) == CHOOSE i \in 1..Len(list) : list[i] = a
IsSweepCreate(i) ==
  i \in 1..NUp /\ UpSteps[i].kind = "create" /\ UpSteps[i].addon \in Range(SweepOrder)

\* the Creates of the sweep that log holds are in the order of SweepOrder,
\* and a workload add-on's Create comes after the Create of every enabled
\* cluster add-on
SweepInOrder(log) ==
  \A k \in 1..Len(log) :
    IsSweepCreate(log[k]) =>
      LET b == UpSteps[log[k]].addon IN
      /\ \A j \in 1..(k - 1) :
           IsSweepCreate(log[j]) =>
             Pos(SweepOrder, UpSteps[log[j]].addon) < Pos(SweepOrder, b)
      /\ b \in Range(WorkloadAddOns) =>
           \A a \in Range(ClusterAddOns) \cap cfg.enabled :
             \E j \in 1..(k - 1) : log[j] = UpIndex("Create", a)

\* C24: in every run of Up the add-on Creates are started in one fixed
\* order, those of the enabled cluster add-ons (Conformance, CSIEBS, AppMesh,
\* KubernetesDashboard, PrometheusGrafana) before the Create of any workload
\* add-on; a Create is started only when every step before it returned nil,
\* so after a failed Create no other Create is started.
SweepClusterTierFirst ==
  [][ /\ SweepInOrder(upLog')
      /\ IsSweepCreate(Started) =>
           /\ upErr = NoErr
           /\ workRes.res = "ok"
           /\ workRes.step = upLog[Len(upLog)] \/ UpSteps[upLog[Len(upLog)]].kind = "hook"
    ]_vars

\* a cluster add-on and a workload add-on are enabled and both Creates were
\* started, the workload add-on's last
ClusterThenWorkloadCreated ==
  /\ {"Conformance", "CSRsLocal"} \subseteq cfg.enabled
  /\ \E j, k \in 1..Len(upLog) :
       /\ j < k
       /\ upLog[j] = UpIndex("Create", "Conformance")
       /\ upLog[k] = UpIndex("Create", "CSRsLocal")

InstallIdx == UpIndex("InstallNvidiaDriver", "")
SMIIdx == UpIndex("CreateNvidiaSMI", "")

\* some enabled node group, unmanaged or managed, has a GPU AMI type
GPUConfigured ==
  \/ "NodeGroups" \in cfg.enabled /\ cfg.ngGPU
  \/ "ManagedNodeGroups" \in cfg.enabled /\ cfg.mngGPU

\* C25: Up starts gpuTester.InstallNvidiaDriver only if some enabled node
\* group has a GPU AMI type, and with one it starts no later step before
\* both GPU steps; CreateNvidiaSMI is started only right after
\* InstallNvidiaDriver returned nil; the step that follows a GPU step is
\* started only if that GPU step returned nil.
GPUBootstrapIffConfigured ==
  [][ LET ran(i) == \E k \in 1..Len(upLog) : upLog[k] = i
          last == IF upLog = << >> THEN 0 ELSE upLog[Len(upLog)]
      IN
      /\ Started = InstallIdx => GPUConfigured /\ upErr = NoErr /\ ~ran(InstallIdx)
      /\ Started = SMIIdx =>
           /\ last = InstallIdx
           /\ workRes = [step |-> InstallIdx, res |-> "ok"]
           /\ upErr = NoErr
      /\ Started > SMIIdx /\ GPUConfigured => ran(InstallIdx) /\ ran(SMIIdx)
      /\ Started # 0 /\ last \in {InstallIdx, SMIIdx} =>
           workRes = [step |-> last, res |-> "ok"] /\ upErr = NoErr
    ]_vars

\* a GPU node group: the driver was installed, then the smoke test ran and
\* returned nil, and Up went on
GPUBootstrapDone ==
  /\ GPUConfigured
  /\ \E j \in 1..Len(upLog) :
       /\ j + 2 <= Len(upLog)
       /\ upLog[j] = InstallIdx
       /\ upLog[j + 1] = SMIIdx

\* the last checkHealth of Up, and the hook that follows it
FinalHealthIdx ==
  CHOOSE i \in 1..NUp :
    /\ UpSteps[i].name = "checkHealth"
    /\ \A j \in (i + 1)..NUp : UpSteps[j].name # "checkHealth"
FinalHookIdx == HookIdx("CommandAfterCreateAddOns")
IsAggregationStep(i) == i \in 1..NUp /\ UpSteps[i].kind \in {"fetch", "aggr"}

\* C26: Up starts a FetchLogs or an AggregateResults only after its last
\* checkHealth has returned nil and, when CommandAfterCreateAddOns is set,
\* after that command has run.
AggregationAfterFinalHealth ==
  \A k \in 1..Len(upLog) :
    IsAggregationStep(upLog[k]) =>
      /\ \E j \in 1..(k - 1) : upLog[j] = FinalHealthIdx
      /\ cfg.CommandAfterCreateAddOns =>
           \E j \in 1..(k - 1) : upLog[j] = FinalHookIdx

\* C27: a FetchLogs or an AggregateResults that fails does not make Up
\* return an error, and Up's handler does not start the teardown for it.
AggregationBestEffort ==
  ~ /\ upErr.cause = "run"
    /\ IsAggregationStep(upErr.step)

\* C28: Up's handler starts the teardown only for a failed Up with
\* OnFailureDelete: at once when OnFailureDeleteWaitSeconds is zero, else out
\* of the wait before clean up and not before that wait has ended, which it
\* does on its timer only if neither the stop signal nor an OS signal has
\* fired before or during the wait.
RevertAfterCoolDownOrSignal ==
  [][ compDowns' > compDowns =>
        /\ upErr # NoErr
        /\ cfg.OnFailureDelete
        /\ IF cfg.OnFailureDeleteWaitSeconds = 0
             THEN upPc = "defer" /\ coolDown' = "skipped"
             ELSE /\ upPc = "cooldown"
                  /\ coolDown' \in {"timer", "stopc", "signal"}
                  /\ coolDown' = "timer" => fires = 0
    ]_vars

MNGDeleteIdx ==
  CHOOSE i \in 1..NDown : DownSteps[i].kind = "ng" /\ DownSteps[i].addon = "ManagedNodeGroups"
NGDeleteIdx ==
  CHOOSE i \in 1..NDown : DownSteps[i].kind = "ng" /\ DownSteps[i].addon = "NodeGroups"

\* what C29 says of the run t of down; which node groups have a tester is
\* looked at while the run goes on
NodeGroupsThenCluster(t) ==
  LET log == dn[t].log
      callAt(k, i) == IsCall(log[k]) /\ log[k].step = i
  IN
  /\ \A k \in 1..Len(log) :
       callAt(k, MNGDeleteIdx) \/ callAt(k, NGDeleteIdx) =>
         /\ k < Len(log)
         /\ log[k + 1] = Sleep(log[k].step, 10)
  /\ \A j, k \in 1..Len(log) :
       callAt(j, MNGDeleteIdx) /\ callAt(k, NGDeleteIdx) => j < k
  /\ \A k \in 1..Len(log) :
       callAt(k, DeleteClusterIdx) =>
         /\ \A j \in 1..Len(log) :
              DownSteps[log[j].step].kind \in {"addon", "ng"} => j < k
         /\ \A i \in {MNGDeleteIdx, NGDeleteIdx} :
              dn[t].active /\ NodeGroupGuard(DownSteps[i].addon, DownSteps[i].handle) =>
                \E j \in 1..(k - 1) : callAt(j, i)

\* C29: in every run of down mngTester.Delete is called before
\* ngTester.Delete, each is followed by its ten-second sleep whether it
\* returned an error or not, and deleteCluster is called only after both
\* Deletes and their sleeps and after every add-on Delete of the run.
ManagedNodeGroupThenNodeGroupThenCluster ==
  \A t \in Runs : NodeGroupsThenCluster(t)

\* mngTester.Delete failed and was followed by its sleep, ngTester.Delete
\* ran after it, and deleteCluster has been called
NodeGroupDeleteFailedClusterDeleted ==
  \E t \in Runs :
    LET log == dn[t].log IN
    \E j, k, c \in 1..Len(log) :
      /\ j < k /\ k < c
      /\ IsFailedCall(log[j]) /\ log[j].step = MNGDeleteIdx
      /\ IsCall(log[k]) /\ log[k].step = NGDeleteIdx
      /\ IsCall(log[c]) /\ log[c].step = DeleteClusterIdx

DownIdx(n) == CHOOSE i \in 1..NDown : DownSteps[i].name = n

\* the order down deletes the prerequisites in
InfraDeleteOrder ==
  << DownIdx("deleteKeyPair"), DownIdx("deleteCluster"), DownIdx("deleteEncryption"),
     DownIdx("deleteClusterRole"), DownIdx("deleteVPC"), DownIdx("deleteS3") >>

\* C30: in every run of down deleteKeyPair is the first call; deleteCluster,
\* deleteEncryption, deleteClusterRole, deleteVPC and deleteS3 are called in
\* this order, each whether or not the calls before it failed; and when the
\* run has returned all of them were called and deleteS3 was the last call.
InfraDeletedInOrder ==
  \A t \in Runs :
    LET calls == CalledSteps(dn[t].log)
        at(i) == {k \in 1..Len(calls) : calls[k] = i}
        n == Len(InfraDeleteOrder)
    IN
    /\ calls # << >> => calls[1] = InfraDeleteOrder[1]
    /\ \A m \in 2..n :
         \A k \in at(InfraDeleteOrder[m]) :
           \E j \in at(InfraDeleteOrder[m - 1]) : j < k
    /\ \A i \in Range(InfraDeleteOrder) : Cardinality(at(i)) <= 1
    /\ \A k \in at(InfraDeleteOrder[n]) : k = Len(calls)
    /\ dn[t].ret # "none" => at(InfraDeleteOrder[n]) # {}

\* a run of down has returned in which deleteKeyPair and deleteCluster
\* failed and deleteS3 was still called, last
InfraDeletedAfterFailures ==
  \E t \in Runs :
    LET calls == CalledSteps(dn[t].log) IN
    /\ dn[t].ret = "error"
    /\ {DownIdx("deleteKeyPair"), DownIdx("deleteCluster")} \subseteq Range(FailedSteps(dn[t].log))
    /\ calls[Len(calls)] = DownIdx("deleteS3")

LBAddOns == {"ALB2048", "NLBHelloWorld"}
LBWaitIdx == CHOOSE i \in 1..NDown : DownSteps[i].kind = "lbwait"

\* C31: in every run of down, after a Delete of alb2048Tester or of
\* nlbHelloWorldTester, failed or not, the two-minute sleep "after deleting
\* LB" comes before deleteVPC is called.
LBWaitBeforeNetwork ==
  \A t \in Runs :
    LET log == dn[t].log IN
    \A k, v \in 1..Len(log) :
      /\ IsCall(log[k]) /\ DownSteps[log[k].step].addon \in LBAddOns
      /\ IsCall(log[v]) /\ log[v].step = DownIdx("deleteVPC")
      => \E s \in (k + 1)..(v - 1) : log[s] = Sleep(LBWaitIdx, 120)

\* the Delete of an add-on that is neither a load-balancer add-on nor a
\* node group
IsWorkloadDelete(e) ==
  /\ IsCall(e)
  /\ DownSteps[e.step].kind = "addon"
  /\ DownSteps[e.step].addon \notin LBAddOns

\* C32: in every run of down the Delete of every add-on other than ALB2048
\* and NLBHelloWorld is followed by a sleep of its own and comes before the
\* Delete of ALB2048 and of NLBHelloWorld.
WorkloadDeletesBeforeLB ==
  \A t \in Runs :
    LET log == dn[t].log IN
    \A k \in 1..Len(log) :
      IsWorkloadDelete(log[k]) =>
        /\ k < Len(log)
        /\ log[k + 1].ev = "sleep" /\ log[k + 1].step = log[k].step
        /\ \A j \in 1..(k - 1) :
             ~(IsCall(log[j]) /\ DownSteps[log[j].step].addon \in LBAddOns)

VPCWaitIdx == CHOOSE i \in 1..NDown : DownSteps[i].kind = "vpcwait"

\* the event e of a run of down is the deletion of the network
DeletesNetwork(e) ==
  IsCall(e) /\ e.step = DownIdx("deleteVPC") /\ deleteVPCDeletes(cfg)

EnabledAddOnsHaveTesters ==
  (workRes.step > CreateClusterIdx \/ workRes = [step |-> CreateClusterIdx, res |-> "ok"])
    => \A a \in cfg.enabled : a \in handles

\* C35: every Delete a run of down makes goes to the tester of the add-on
\* whose IsEnabled and Created guard the call, and that add-on is enabled.
DeleteDispatchedToOwnTester ==
  \A t \in Runs :
    \A k \in 1..Len(dn[t].log) :
      LET e == dn[t].log[k]
          s == DownSteps[e.step]
      IN
      e.ev \in {"call", "panic"} /\ s.kind \in {"addon", "ng"} =>
        /\ s.handle = s.addon
        /\ s.handle \in cfg.enabled

\* C36: a run of down that has returned has called, exactly once, the
\* Delete of every enabled add-on whose Created flag was true when the run
\* began (its Create had succeeded in Up).
EveryCreatedAddOnDeletedOnce ==
  \A t \in Runs :
    dn[t].ret # "none" =>
      \A a \in dn[t].atStart \cap cfg.enabled :
        Cardinality({k \in 1..Len(dn[t].log) :
                       /\ IsCall(dn[t].log[k])
                       /\ DownSteps[dn[t].log[k].step].kind \in {"addon", "ng"}
                       /\ DownSteps[dn[t].log[k].step].handle = a}) = 1

\* how many times Up started the Create of add-on a
CreateCount(a) ==
  Cardinality({k \in 1..Len(upLog) : upLog[k] = UpIndex("Create", a)})

\* C37: when Up has returned nil, the Create of every enabled add-on, node
\* groups included, was started exactly once and returned nil (the add-on
\* is Created), and the Create of no disabled add-on was started.
UpSuccessAllEnabledCreated ==
  upPc = "done" /\ upRet = NoErr =>
    \A a \in AddOns :
      IF a \in cfg.enabled
        THEN CreateCount(a) = 1 /\ a \in created /\ a \in handles
        ELSE CreateCount(a) = 0

\* Up has returned nil with a node group, a cluster add-on and a workload
\* add-on enabled
UpSucceededWithAddOns ==
  /\ upPc = "done" /\ upRet = NoErr
  /\ cfg.enabled = {"NodeGroups", "Conformance", "CSRsLocal"}

\* C38: DumpClusterLogs and DownloadClusterLogs call only testers of
\* enabled node-group add-ons: ngTester only with AddOnNodeGroups enabled,
\* mngTester only with AddOnManagedNodeGroups enabled.
LogsUseEnabledTesters ==
  \A k \in 1..Len(logRet.used) : logRet.used[k] \in cfg.enabled

\* C39: the verdict of verifyUpFlags is stable: once deployer.Up has called
\* it, a second call on the same deployer returns an error exactly if the
\* first did; so a call that only filled in a default (m5.xlarge for an
\* unmanaged node group without instance type, unmanaged node group for
\* Bottlerocket with a custom AMI) returned nil.
VerifyUpFlagsStable ==
  \A k \in {1, 2} :
    dep[k].pc # "start" =>
      LET again == verifyUpFlags(dep[k].UpOptions, env) IN
      (dep[k].ret = "up flags are invalid") <=> (again.err # "nil")

====
